---- MODULE Spec2Model ----
(***************************************************************************)
(* Live location tracking of the student dashboard (the Analytics view).   *)
(*                                                                         *)
(* The view is a React function component.  Its state is the useState      *)
(* cells and the refs; its operations are the click handlers, the          *)
(* geolocation callbacks, the continuations of the async handlers after    *)
(* each await, and the Socket.IO event handlers.  Everything runs on one   *)
(* thread, so every step between two awaits is one atomic action.          *)
(*                                                                         *)
(* React semantics that the model keeps:                                   *)
(*   - a state setter called after the component has unmounted does        *)
(*     nothing (SetState);                                                 *)
(*   - a handler attached in the JSX closes over the state of the latest   *)
(*     render, the cleanup returned by the mount effect (dependency list   *)
(*     []) closes over the state of the FIRST render;                      *)
(*   - refs (mapInstanceRef, markersRef, socketRef) are shared by all      *)
(*     closures.                                                           *)
(*                                                                         *)
(* Coordinates are whole degrees, accuracies whole metres.  currentLocation *)
(* keeps userId, latitude and longitude; the fields of LocationData that   *)
(* no handler reads back to decide anything (accuracy, address, userType,  *)
(* lastUpdated, isActive) are left out.                                    *)
(***************************************************************************)
EXTENDS Integers, Sequences, FiniteSets, TLC

(* ------------------------------ bounds -------------------------------- *)

\* most async handler invocations suspended at an await at the same time
MaxProcs == 2

\* most calls of navigator.geolocation.watchPosition in one behaviour
MaxWatches == 2

(* ----------------------------- constants ------------------------------ *)

\* the peer accuracy gate and the self degradation warning, in metres
AccuracyLimit == 1000

\* `undefined` as the value of an id
Undef == "undefined"

\* `undefined` as the value of an accuracy
NoAcc == -1

\* React state `null` (currentLocation) and "no marker for this key"
Null == [isNull |-> TRUE]

\* watchId === null
NoWatch == 0

\* the sessions the view can be mounted with: the logged-in user's record
\* may carry id and studentId, only id (the demo user), or no id at all
UserDatas ==
    { [id |-> "u1",  studentId |-> "s1"],
      [id |-> "u1",  studentId |-> Undef],
      [id |-> Undef, studentId |-> "s1"] }

\* keys of markersRef: user ids carried by events, or 'current'
Keys == {"u1", "s1", "p1", "p2", "current"}

\* userId values a push event can carry
EventUserIds == {"u1", "s1", "p1", Undef}

\* fixes the platform geolocation source reports
GeoFixes ==
    { [lat |-> 22, lng |-> 88], [lat |-> 12, lng |-> 77] }

\* payloads of an inbound 'location:update'
PushLats == {0, 22}
PushLngs == {88}
PushAccs == {NoAcc, 0, 15, 1000, 1500}
PushShapes == {"nested", "flat"}

\* outcomes of one REST call of locationApi
RestOutcomes == {"ok", "http_error", "timeout", "network"}

\* results of getAddressFromCoordinates
GeocodeResults == {"Addr", "Address lookup failed"}

\* codes of a GeolocationPositionError
GeoErrors == {"PERMISSION_DENIED", "POSITION_UNAVAILABLE", "TIMEOUT"}

\* DEMO_TOKEN
DemoToken == "demo-token"

\* localStorage.getItem('authToken') === null
NoToken == "null"

\* what localStorage can hold under 'authToken'
Tokens == {NoToken, DemoToken, "jwt"}

\* the operations of locationApi
LocationOps == {"update", "current", "history", "nearby", "stop"}

\* one NearbyLocation: userId and location
NearbyItem(uid, lat, lng) == [userId |-> uid, lat |-> lat, lng |-> lng]

\* `locations` of a proximity result (REST or 'location:nearby:response');
\* the server decides whether the caller's own id is left out
NearbyResults ==
    { << >>,
      << NearbyItem("p1", 22, 88) >>,
      << NearbyItem("p2", 12, 77) >>,
      << NearbyItem("p1", 12, 77), NearbyItem("p2", 22, 88) >>,
      << NearbyItem("u1", 12, 77) >> }

(* ------------------------------- state -------------------------------- *)

VARIABLES
    userData,                 \* prop of the view, fixed while it is mounted
    mounted,                  \* the component is mounted
    mapInit,                  \* mapInstanceRef.current is a map
    socketRef,                \* socketRef.current is a socket
    sockState,                \* the Socket.IO script and the socket it creates:
                              \* "noscript", "loading", "connecting", "connected", "closed"
    isTracking,               \* useState isTracking
    isRequestingPermission,   \* useState isRequestingPermission
    geoReq,                   \* startTracking's getCurrentPosition is pending
    watchId,                  \* useState watchId (NoWatch for null)
    watches,                  \* watch ids registered with the platform and not cleared
    nextWatch,                \* next id watchPosition returns
    currentLocation,          \* useState currentLocation
    locationAddress,          \* useState locationAddress
    markers,                  \* markersRef.current: key -> position on the map
    layers,                   \* key -> number of marker layers on the map made for it
    isLoadingManualLocation,  \* useState isLoadingManualLocation
    nearbyLocations,          \* useState nearbyLocations
    authToken,                \* localStorage 'authToken' (NoToken when absent)
    apiCall,                  \* what the last call of locationApi did
    lastFix,                  \* the fix the platform delivered most recently (history)
    procs,                    \* async handler invocations suspended at an await
    \* AppContent (App.tsx)
    currentView,              \* useState currentView
    selectedCourseId,         \* useState selectedCourseId (NoCourse for null)
    isAuthenticated,          \* useState isAuthenticated
    storedUserData,           \* localStorage holds 'userData'
    showLogoutModal,          \* useState showLogoutModal
    isLoggingOut,             \* useState isLoggingOut
    logoutCalls,              \* handleLogoutConfirm invocations awaiting api.logout
    toast,                    \* the toast AppContent or LoginPage showed last
    \* CourseDetail
    courseData,               \* useState courseData (Null for null)
    isLoading,                \* useState isLoading
    selectedLesson,           \* useState selectedLesson (Null for null)
    selectedLessonIndex,      \* useState selectedLessonIndex
    isEnrolling,              \* useState isEnrolling
    couponCode,               \* useState couponCode
    showCouponInput,          \* useState showCouponInput
    detailCalls,              \* fetchCourseDetails invocations awaiting the API
    enrollCalls,              \* handleEnroll invocations awaiting enrollInCourse
    enrollRefresh,            \* handleEnroll invocations awaiting fetchCourseDetails
    enrollIgnored,            \* the last handleEnroll returned at its first line (history)
    \* SubscriptionPage
    isProcessingPayment,      \* useState isProcessingPayment
    selectedPlan,             \* useState selectedPlan (NoPlan for null)
    planCoupon,               \* useState couponCode of the subscription page
    razorpayLoaded,           \* window.Razorpay is defined
    orderCalls,               \* handlePurchasePlan invocations awaiting createOrder
    checkouts,                \* Razorpay checkouts open
    verifyCalls,              \* handlePaymentVerification invocations awaiting verifyPayment
    dataCalls,                \* fetchData invocations in flight
    payOutcome,               \* how the last purchase ended (history)
    session,                  \* why isTracking has its value (history)
    out                       \* what the last step did outwards: whether it
                              \* called showError, what it emitted, and the
                              \* accuracy the gate logged as ignored

vars == << userData, mounted, mapInit, socketRef, sockState,
           isTracking, isRequestingPermission, geoReq, watchId, watches,
           nextWatch, currentLocation, locationAddress, markers, layers,
           isLoadingManualLocation, nearbyLocations, authToken, apiCall,
           lastFix,
           procs, session, out,
           currentView, selectedCourseId, isAuthenticated, storedUserData,
           showLogoutModal, isLoggingOut, logoutCalls, toast,
           courseData, isLoading, selectedLesson, selectedLessonIndex,
           isEnrolling, couponCode, showCouponInput, detailCalls, enrollCalls,
           enrollRefresh, enrollIgnored,
           isProcessingPayment, selectedPlan, planCoupon, razorpayLoaded,
           orderCalls, checkouts, verifyCalls, dataCalls, payOutcome >>

\* the state of AppContent other than userData
appVars ==
    << currentView, selectedCourseId, isAuthenticated, storedUserData,
       showLogoutModal, isLoggingOut, logoutCalls, toast >>

\* the state of a CourseDetail
courseVars ==
    << courseData, isLoading, selectedLesson, selectedLessonIndex,
       isEnrolling, couponCode, showCouponInput, detailCalls, enrollCalls,
       enrollRefresh, enrollIgnored >>

\* the state of a SubscriptionPage
payVars ==
    << isProcessingPayment, selectedPlan, planCoupon, razorpayLoaded,
       orderCalls, checkouts, verifyCalls, dataCalls, payOutcome >>

\* the state outside the Analytics view
otherViews == << appVars, courseVars, payVars >>

\* the state of the Analytics view other than userData and authToken
viewVars ==
    << mounted, mapInit, socketRef, sockState,
       isTracking, isRequestingPermission, geoReq, watchId, watches,
       nextWatch, currentLocation, locationAddress, markers, layers,
       isLoadingManualLocation, nearbyLocations, apiCall, lastFix,
       procs, session, out >>

NoOut == [error |-> FALSE, emit |-> "none", ignored |-> NoAcc]

\* showError was called (err), socketRef.current.emit(e) was called
Out(err, e) == [error |-> err, emit |-> e, ignored |-> NoAcc]

\* console.warn('Location accuracy too low, ignoring update:', accuracy)
Ignored(acc) == [error |-> FALSE, emit |-> "none", ignored |-> acc]

\* a state setter: nothing happens once the component has unmounted
SetState(old, new) == IF mounted THEN new ELSE old

\* const userId = userData?.id || 'current'
SelfKey == IF userData.id # Undef THEN userData.id ELSE "current"

\* socketRef.current && socketRef.current.connected
Connected == socketRef /\ sockState = "connected"

Pos(lat, lng) == [lat |-> lat, lng |-> lng]

\* if (markersRef.current.has(key)) map.removeLayer(markersRef.current.get(key))
RemoveLayer(l, m, key) ==
    IF m[key] # Null THEN [l EXCEPT ![key] = l[key] - 1] ELSE l

\* ReplaceLayer as it would be if the old marker were left on the map
ReplaceLayer_KeepsOld(l, m, key) == [l EXCEPT ![key] = l[key] + 1]

\* the old marker of the key, if any, is taken off the map and a new marker
\* is added to it
ReplaceLayer(l, m, key) ==
    [l EXCEPT ![key] = RemoveLayer(l, m, key)[key] + 1]

Loc(uid, lat, lng) == [userId |-> uid, lat |-> lat, lng |-> lng]

Proc(kind, pc, lat, lng) ==
    [kind |-> kind, pc |-> pc, lat |-> lat, lng |-> lng]

\* fetchWithTimeout: a Response, or an Error thrown.  `message` holds the
\* phrases of the Error's message that handleNetworkError looks for
FetchWithTimeout(outcome) ==
    CASE outcome = "ok" ->
             [threw |-> FALSE, ok |-> TRUE, message |-> {}]
      [] outcome = "http_error" ->
             [threw |-> FALSE, ok |-> FALSE, message |-> {}]
      [] outcome = "timeout" ->
             [threw |-> TRUE, ok |-> FALSE, message |-> {"timeout"}]
      [] outcome = "network" ->
             [threw |-> TRUE, ok |-> FALSE, message |-> {"Failed to fetch"}]

\* handleResponse: an ApiResponse from a Response
HandleResponse(response) ==
    IF ~response.ok
    THEN [threw |-> FALSE, success |-> FALSE, message |-> "server"]
    ELSE [threw |-> FALSE, success |-> TRUE, message |-> "Success"]

\* handleNetworkError: an ApiResponse from an Error
HandleNetworkError(error) ==
    IF "timeout" \in error.message
    THEN [threw |-> FALSE, success |-> FALSE, message |-> "timeout"]
    ELSE IF "Failed to fetch" \in error.message
    THEN [threw |-> FALSE, success |-> FALSE, message |-> "network"]
    ELSE [threw |-> FALSE, success |-> FALSE, message |-> "unexpected"]

\* ApiRequest as it would be without the try/catch around the request
ApiRequest_NoCatch(outcome) ==
    LET r == FetchWithTimeout(outcome)
    IN  IF r.threw
        THEN [threw |-> TRUE, success |-> FALSE, message |-> "thrown"]
        ELSE HandleResponse(r)

\* the body of every locationApi operation past the demo test:
\* try { return handleResponse(await fetchWithTimeout(...)) }
\* catch (error) { return handleNetworkError(error) }
ApiRequest(outcome) ==
    LET r == FetchWithTimeout(outcome)
    IN  IF r.threw THEN HandleNetworkError(r) ELSE HandleResponse(r)

\* the call returned an ApiResponse whose success is true
Success(outcome) == ~ApiRequest(outcome).threw /\ ApiRequest(outcome).success

CanSpawn(p) == Cardinality(procs) < MaxProcs /\ p \notin procs

\* no call of locationApi yet
NoCall ==
    [op |-> "none", network |-> FALSE, authorization |-> FALSE,
     threw |-> FALSE, success |-> FALSE, message |-> "none"]

\* selectedPlan === null
NoPlan == "none"

\* selectedCourseId === null
NoCourse == "none"

\* AppContent of a logged-in user showing view v
AppShows(v) ==
    /\ currentView = v
    /\ selectedCourseId = IF v = "course-detail" THEN "c1" ELSE NoCourse
    /\ isAuthenticated = TRUE
    /\ storedUserData = TRUE
    /\ showLogoutModal = FALSE
    /\ isLoggingOut = FALSE
    /\ logoutCalls = 0
    /\ toast = "none"

\* the useState cells of a CourseDetail at its first render, with `calls`
\* invocations of fetchCourseDetails in flight
CourseState(calls) ==
    /\ courseData = Null
    /\ isLoading = TRUE
    /\ selectedLesson = Null
    /\ selectedLessonIndex = -1
    /\ isEnrolling = FALSE
    /\ couponCode = ""
    /\ showCouponInput = FALSE
    /\ detailCalls = calls
    /\ enrollCalls = 0
    /\ enrollRefresh = 0
    /\ enrollIgnored = FALSE

\* the useState cells of a SubscriptionPage at its first render, with `calls`
\* invocations of fetchData in flight
PayState(calls) ==
    /\ isProcessingPayment = FALSE
    /\ selectedPlan = NoPlan
    /\ planCoupon = ""
    /\ razorpayLoaded = FALSE
    /\ orderCalls = 0
    /\ checkouts = 0
    /\ verifyCalls = 0
    /\ dataCalls = calls
    /\ payOutcome = "none"

\* the Analytics view before anything happened in it
ViewIdle ==
    /\ mapInit = FALSE
    /\ socketRef = FALSE
    /\ sockState = "noscript"
    /\ isTracking = FALSE
    /\ isRequestingPermission = FALSE
    /\ geoReq = FALSE
    /\ watchId = NoWatch
    /\ watches = {}
    /\ nextWatch = 1
    /\ currentLocation = Null
    /\ locationAddress = ""
    /\ markers = [k \in Keys |-> Null]
    /\ layers = [k \in Keys |-> 0]
    /\ isLoadingManualLocation = FALSE
    /\ nearbyLocations = << >>
    /\ procs = {}
    /\ session = "never"
    /\ out = NoOut
    /\ apiCall = NoCall
    /\ lastFix = Null

\* the Analytics view right after its first render
InitView ==
    /\ userData \in UserDatas
    /\ mounted = TRUE
    /\ ViewIdle
    /\ AppShows("analytics")
    /\ CourseState(0)
    /\ PayState(0)

\* a session logged in with a token of the server
Init == InitView /\ authToken = "jwt"

\* a session of any kind: logged in, demo, or with the token gone
InitAnyToken == InitView /\ authToken \in Tokens

(* ------------------------ mount, map and socket ----------------------- *)

\* the mount effect's interval finds Leaflet loaded: initializeMap, loadSocketIO
InitializeMap ==
    /\ mounted /\ ~mapInit
    /\ mapInit' = TRUE
    /\ sockState' = IF sockState = "noscript" THEN "loading" ELSE sockState
    /\ out' = NoOut
    /\ UNCHANGED << nearbyLocations,
                    authToken, apiCall, lastFix,
                    userData, otherViews, mounted, socketRef, isTracking,
                    isRequestingPermission, geoReq, watchId, watches, nextWatch,
                    currentLocation, locationAddress, markers, layers,
                    isLoadingManualLocation, procs, session >>

\* script.onload: connectSocket, which gives up when localStorage holds no
\* token
ConnectSocket ==
    /\ sockState = "loading"
    /\ socketRef' = (authToken # NoToken)
    /\ sockState' = IF authToken # NoToken THEN "connecting" ELSE "closed"
    /\ out' = NoOut
    /\ UNCHANGED << nearbyLocations,
                    authToken, apiCall, lastFix,
                    userData, otherViews, mounted, mapInit, isTracking,
                    isRequestingPermission, geoReq, watchId, watches, nextWatch,
                    currentLocation, locationAddress, markers, layers,
                    isLoadingManualLocation, procs, session >>

\* socket.on('connect'), also after a reconnect
OnConnect ==
    /\ sockState = "connecting"
    /\ sockState' = "connected"
    /\ out' = NoOut
    /\ UNCHANGED << nearbyLocations,
                    authToken, apiCall, lastFix,
                    userData, otherViews, mounted, mapInit, socketRef, isTracking,
                    isRequestingPermission, geoReq, watchId, watches, nextWatch,
                    currentLocation, locationAddress, markers, layers,
                    isLoadingManualLocation, procs, session >>

\* socket.on('disconnect'): the transport dropped, the client reconnects
OnDisconnect ==
    /\ sockState = "connected"
    /\ sockState' = "connecting"
    /\ out' = NoOut
    /\ UNCHANGED << nearbyLocations,
                    authToken, apiCall, lastFix,
                    userData, otherViews, mounted, mapInit, socketRef, isTracking,
                    isRequestingPermission, geoReq, watchId, watches, nextWatch,
                    currentLocation, locationAddress, markers, layers,
                    isLoadingManualLocation, procs, session >>


(* --------------------------- startTracking ---------------------------- *)

PendingStarts ==
    Cardinality({p \in procs : p.kind = "init"}) + (IF geoReq THEN 1 ELSE 0)

\* the tracking button while it reads "Start Tracking": startTracking
StartTracking ==
    /\ mounted /\ ~isRequestingPermission /\ ~isTracking
    /\ ~geoReq
    /\ nextWatch + PendingStarts <= MaxWatches
    /\ isRequestingPermission' = TRUE
    /\ geoReq' = TRUE
    /\ out' = NoOut
    /\ UNCHANGED << nearbyLocations,
                    authToken, apiCall, lastFix,
                    userData, otherViews, mounted, mapInit, socketRef, sockState,
                    isTracking, watchId, watches, nextWatch, currentLocation,
                    locationAddress, markers, layers, isLoadingManualLocation, procs,
                    session >>

\* getCurrentPosition success callback, up to its first await
InitialFix(fix) ==
    /\ geoReq
    /\ CanSpawn(Proc("init", "addr", fix.lat, fix.lng))
    /\ geoReq' = FALSE
    /\ isRequestingPermission' = SetState(isRequestingPermission, FALSE)
    /\ isTracking' = SetState(isTracking, TRUE)
    /\ session' = SetState(session, "active")
    /\ procs' = procs \cup {Proc("init", "addr", fix.lat, fix.lng)}
    /\ lastFix' = IF mounted THEN Pos(fix.lat, fix.lng) ELSE lastFix
    /\ out' = NoOut
    /\ UNCHANGED << nearbyLocations,
                    authToken, apiCall,
                    userData, otherViews, mounted, mapInit, socketRef, sockState,
                    watchId, watches, nextWatch, currentLocation,
                    locationAddress, markers, layers, isLoadingManualLocation >>

\* InitialFixError as it would be if a failed first fix still marked the
\* session as tracking
InitialFixError_StartsAnyway(code) ==
    /\ geoReq
    /\ geoReq' = FALSE
    /\ isRequestingPermission' = SetState(isRequestingPermission, FALSE)
    /\ isTracking' = SetState(isTracking, TRUE)
    /\ out' = Out(TRUE, "none")
    /\ UNCHANGED << nearbyLocations,
                    authToken, apiCall, lastFix,
                    userData, otherViews, mounted, mapInit, socketRef, sockState,
                    watchId, watches, nextWatch, currentLocation,
                    locationAddress, markers, layers, isLoadingManualLocation, procs,
                    session >>

\* getCurrentPosition error callback
InitialFixError(code) ==
    /\ geoReq
    /\ geoReq' = FALSE
    /\ isRequestingPermission' = SetState(isRequestingPermission, FALSE)
    /\ out' = Out(TRUE, "none")
    /\ UNCHANGED << nearbyLocations,
                    authToken, apiCall, lastFix,
                    userData, otherViews, mounted, mapInit, socketRef, sockState,
                    isTracking, watchId, watches, nextWatch, currentLocation,
                    locationAddress, markers, layers, isLoadingManualLocation, procs,
                    session >>

Resume(p, pc) == (procs \ {p}) \cup {[p EXCEPT !.pc = pc]}

\* the success callback after `await getAddressFromCoordinates`: pins the
\* marker and issues the REST update
InitAddrDone(p, addr) ==
    /\ p \in procs /\ p.kind = "init" /\ p.pc = "addr"
    /\ [p EXCEPT !.pc = "rest"] \notin procs
    /\ locationAddress' = SetState(locationAddress, addr)
    /\ markers' = IF mapInit
                  THEN [markers EXCEPT ![SelfKey] = Pos(p.lat, p.lng)]
                  ELSE markers
    /\ layers' = IF mapInit
                 THEN ReplaceLayer(layers, markers, SelfKey)
                 ELSE layers
    /\ procs' = Resume(p, "rest")
    /\ out' = NoOut
    /\ UNCHANGED << nearbyLocations,
                    authToken, apiCall, lastFix,
                    userData, otherViews, mounted, mapInit, socketRef, sockState,
                    isTracking, isRequestingPermission, geoReq, watchId,
                    watches, nextWatch, currentLocation,
                    isLoadingManualLocation, session >>

\* the success callback after `await locationApi.updateLocation`: all three
\* branches set currentLocation, emit when connected, and fall through to
\* watchPosition and setWatchId
InitRestDone(p, outcome) ==
    /\ p \in procs /\ p.kind = "init" /\ p.pc = "rest"
    /\ currentLocation' =
           SetState(currentLocation, Loc(SelfKey, p.lat, p.lng))
    /\ out' = Out(FALSE, IF Connected THEN "location:update" ELSE "none")
    /\ watches' = watches \cup {nextWatch}
    /\ nextWatch' = nextWatch + 1
    /\ watchId' = SetState(watchId, nextWatch)
    /\ procs' = procs \ {p}
    /\ UNCHANGED << nearbyLocations,
                    authToken, apiCall, lastFix,
                    userData, otherViews, mounted, mapInit, socketRef, sockState,
                    isTracking, isRequestingPermission, geoReq,
                    locationAddress, markers, layers, isLoadingManualLocation,
                    session >>

(* ------------------------- the continuous watch ----------------------- *)

\* watchPosition success callback, up to its first await
WatchFix(w, fix) ==
    /\ w \in watches
    /\ CanSpawn(Proc("watch", "addr", fix.lat, fix.lng))
    /\ procs' = procs \cup {Proc("watch", "addr", fix.lat, fix.lng)}
    /\ lastFix' = IF mounted THEN Pos(fix.lat, fix.lng) ELSE lastFix
    /\ out' = NoOut
    /\ UNCHANGED << nearbyLocations,
                    authToken, apiCall,
                    userData, otherViews, mounted, mapInit, socketRef, sockState,
                    isTracking, isRequestingPermission, geoReq, watchId,
                    watches, nextWatch, currentLocation, locationAddress,
                    markers, layers, isLoadingManualLocation, session >>

\* watchPosition error callback: the platform keeps the watch registered
WatchError(w, code) ==
    /\ w \in watches
    /\ isTracking' = SetState(isTracking, FALSE)
    /\ session' = SetState(session, "errorStopped")
    /\ out' = Out(TRUE, "none")
    /\ UNCHANGED << nearbyLocations,
                    authToken, apiCall, lastFix,
                    userData, otherViews, mounted, mapInit, socketRef, sockState,
                    isRequestingPermission, geoReq, watchId, watches,
                    nextWatch, currentLocation, locationAddress, markers, layers,
                    isLoadingManualLocation, procs >>

\* the watch callback after `await getAddressFromCoordinates`: moves the
\* existing self marker and issues the REST update
WatchAddrDone(p, addr) ==
    /\ p \in procs /\ p.kind = "watch" /\ p.pc = "addr"
    /\ [p EXCEPT !.pc = "rest"] \notin procs
    /\ locationAddress' = SetState(locationAddress, addr)
    /\ markers' = IF mapInit /\ markers[SelfKey] # Null
                  THEN [markers EXCEPT ![SelfKey] = Pos(p.lat, p.lng)]
                  ELSE markers
    /\ layers' = layers
    /\ procs' = Resume(p, "rest")
    /\ out' = NoOut
    /\ UNCHANGED << nearbyLocations,
                    authToken, apiCall, lastFix,
                    userData, otherViews, mounted, mapInit, socketRef, sockState,
                    isTracking, isRequestingPermission, geoReq, watchId,
                    watches, nextWatch, currentLocation,
                    isLoadingManualLocation, session >>

\* WatchRestDone as it would be if a watch fix were announced on the channel
\* only after its REST update succeeded
WatchRestDone_EmitOnSuccess(p, outcome) ==
    /\ p \in procs /\ p.kind = "watch" /\ p.pc = "rest"
    /\ currentLocation' =
           SetState(currentLocation, Loc(SelfKey, p.lat, p.lng))
    /\ out' = Out(FALSE, IF Connected /\ Success(outcome)
                          THEN "location:update" ELSE "none")
    /\ procs' = procs \ {p}
    /\ UNCHANGED << nearbyLocations,
                    authToken, apiCall, lastFix,
                    userData, otherViews, mounted, mapInit, socketRef, sockState,
                    isTracking, isRequestingPermission, geoReq, watchId,
                    watches, nextWatch, locationAddress, markers, layers,
                    isLoadingManualLocation, session >>

\* WatchRestDone as it would be if a fix older than the one delivered last
\* were not written over it
WatchRestDone_KeepsNewer(p, outcome) ==
    /\ p \in procs /\ p.kind = "watch" /\ p.pc = "rest"
    /\ currentLocation' =
           IF Pos(p.lat, p.lng) = lastFix
           THEN SetState(currentLocation, Loc(SelfKey, p.lat, p.lng))
           ELSE currentLocation
    /\ out' = Out(FALSE, IF Connected THEN "location:update" ELSE "none")
    /\ procs' = procs \ {p}
    /\ UNCHANGED << nearbyLocations,
                    authToken, apiCall, lastFix,
                    userData, otherViews, mounted, mapInit, socketRef, sockState,
                    isTracking, isRequestingPermission, geoReq, watchId,
                    watches, nextWatch, locationAddress, markers, layers,
                    isLoadingManualLocation, session >>

\* the watch callback after `await locationApi.updateLocation`
WatchRestDone(p, outcome) ==
    /\ p \in procs /\ p.kind = "watch" /\ p.pc = "rest"
    /\ currentLocation' =
           SetState(currentLocation, Loc(SelfKey, p.lat, p.lng))
    /\ out' = Out(FALSE, IF Connected THEN "location:update" ELSE "none")
    /\ procs' = procs \ {p}
    /\ UNCHANGED << nearbyLocations,
                    authToken, apiCall, lastFix,
                    userData, otherViews, mounted, mapInit, socketRef, sockState,
                    isTracking, isRequestingPermission, geoReq, watchId,
                    watches, nextWatch, locationAddress, markers, layers,
                    isLoadingManualLocation, session >>

(* ---------------------------- stopTracking ---------------------------- *)

StopProc == Proc("stop", "rest", 0, 0)

\* the tracking button while it reads "Stop Tracking": stopTracking up to
\* `await locationApi.stopLocationTracking`
StopTracking ==
    /\ mounted /\ ~isRequestingPermission /\ isTracking
    /\ CanSpawn(StopProc)
    /\ watches' = IF watchId # NoWatch THEN watches \ {watchId} ELSE watches
    /\ watchId' = NoWatch
    /\ isTracking' = FALSE
    /\ session' = "userStopped"
    /\ procs' = procs \cup {StopProc}
    /\ out' = NoOut
    /\ UNCHANGED << nearbyLocations,
                    authToken, apiCall, lastFix,
                    userData, otherViews, mounted, mapInit, socketRef, sockState,
                    isRequestingPermission, geoReq, nextWatch,
                    currentLocation, locationAddress, markers, layers,
                    isLoadingManualLocation >>

\* StopRestDone as it would be if the stop were announced on the channel
\* only after the REST stop call succeeded
StopRestDone_EmitOnSuccess(p, outcome) ==
    /\ p \in procs /\ p.kind = "stop"
    /\ out' = Out(FALSE, IF Connected /\ Success(outcome)
                          THEN "location:stop" ELSE "none")
    /\ procs' = procs \ {p}
    /\ UNCHANGED << nearbyLocations,
                    authToken, apiCall, lastFix,
                    userData, otherViews, mounted, mapInit, socketRef, sockState,
                    isTracking, isRequestingPermission, geoReq, watchId,
                    watches, nextWatch, currentLocation, locationAddress,
                    markers, layers, isLoadingManualLocation, session >>

\* stopTracking after the REST stop call has returned its ApiResponse
StopRestDone(p, outcome) ==
    /\ p \in procs /\ p.kind = "stop"
    /\ out' = Out(FALSE, IF Connected THEN "location:stop" ELSE "none")
    /\ procs' = procs \ {p}
    /\ UNCHANGED << nearbyLocations,
                    authToken, apiCall, lastFix,
                    userData, otherViews, mounted, mapInit, socketRef, sockState,
                    isTracking, isRequestingPermission, geoReq, watchId,
                    watches, nextWatch, currentLocation, locationAddress,
                    markers, layers, isLoadingManualLocation, session >>

(* ---------------------- manual coordinate entry ----------------------- *)

\* what the two <input type="number"> fields can hold when the button is
\* clicked: the browser keeps a number input's value a valid number or ""
ManualLatStrings ==
    { <<"-", "9", "1">>, <<"9", "1">>, <<"9", "0">>, <<>> }

ManualLngStrings ==
    { <<"-", "1", "8", "1">>, <<"1", "8", "1">>, <<"1", "8", "0">>, <<>> }

IsSpace(c) == c = " "

RECURSIVE TrimStart(_)
TrimStart(s) ==
    IF s # <<>> /\ IsSpace(Head(s)) THEN TrimStart(Tail(s)) ELSE s

RECURSIVE TrimEnd(_)
TrimEnd(s) ==
    IF s # <<>> /\ IsSpace(s[Len(s)])
    THEN TrimEnd(SubSeq(s, 1, Len(s) - 1))
    ELSE s

\* String.prototype.trim
Trim(s) == TrimEnd(TrimStart(s))

DigitChars == {"0", "1", "2", "3", "4", "5", "6", "7", "8", "9"}

DigitValue(c) ==
    CASE c = "0" -> 0 [] c = "1" -> 1 [] c = "2" -> 2 [] c = "3" -> 3
      [] c = "4" -> 4 [] c = "5" -> 5 [] c = "6" -> 6 [] c = "7" -> 7
      [] c = "8" -> 8 [] c = "9" -> 9

\* the value of the longest prefix of digits of s, continuing from acc;
\* n counts the digits read
RECURSIVE ReadDigits(_, _, _)
ReadDigits(s, acc, n) ==
    IF s # <<>> /\ Head(s) \in DigitChars
    THEN ReadDigits(Tail(s), 10 * acc + DigitValue(Head(s)), n + 1)
    ELSE [val |-> acc, digits |-> n]

NaN == [nan |-> TRUE, val |-> 0]

Num(v) == [nan |-> FALSE, val |-> v]

\* parseFloat on whole-degree input: an optional sign, then the longest
\* prefix of digits; NaN when there is no digit
ParseFloat(s) ==
    LET t    == TrimStart(s)
        neg  == t # <<>> /\ Head(t) = "-"
        body == IF t # <<>> /\ Head(t) \in {"-", "+"} THEN Tail(t) ELSE t
        r    == ReadDigits(body, 0, 0)
    IN  IF r.digits = 0 THEN NaN
        ELSE Num(IF neg THEN 0 - r.val ELSE r.val)

\* InvalidCoordinate as it would be without the longitude range check
InvalidCoordinate_NoLngRange(lat, lng) ==
    \/ lat.nan \/ lng.nan
    \/ lat.val < -90 \/ lat.val > 90

\* the three validation returns of getLocationFromCoordinates
InvalidCoordinate(lat, lng) ==
    \/ lat.nan \/ lng.nan
    \/ lat.val < -90 \/ lat.val > 90
    \/ lng.val < -180 \/ lng.val > 180

\* the "Get Location" button with both fields filled (handleGetLocation):
\* getLocationFromCoordinates up to its first return or await
GetLocationFromCoordinates(latStr, lngStr) ==
    /\ mounted /\ ~isLoadingManualLocation
    /\ Trim(latStr) # <<>> /\ Trim(lngStr) # <<>>
    /\ LET lat == ParseFloat(Trim(latStr))
           lng == ParseFloat(Trim(lngStr))
       IN  IF InvalidCoordinate(lat, lng)
           THEN /\ out' = Out(TRUE, "none")
                /\ UNCHANGED << isLoadingManualLocation, procs >>
           ELSE /\ CanSpawn(Proc("manual", "addr", lat.val, lng.val))
                /\ isLoadingManualLocation' = TRUE
                /\ procs' = procs \cup
                       {Proc("manual", "addr", lat.val, lng.val)}
                /\ out' = NoOut
    /\ UNCHANGED << nearbyLocations,
                    authToken, apiCall, lastFix,
                    userData, otherViews, mounted, mapInit, socketRef, sockState,
                    isTracking, isRequestingPermission, geoReq, watchId,
                    watches, nextWatch, currentLocation, locationAddress,
                    markers, layers, session >>

\* getLocationFromCoordinates after `await getAddressFromCoordinates`: with a
\* map it pins the marker, sets currentLocation and issues the REST update;
\* without one it shows an error and ends
ManualAddrDone(p, addr) ==
    /\ p \in procs /\ p.kind = "manual" /\ p.pc = "addr"
    /\ locationAddress' = SetState(locationAddress, addr)
    /\ IF mapInit
       THEN /\ markers' = [markers EXCEPT ![SelfKey] = Pos(p.lat, p.lng)]
            /\ layers' = ReplaceLayer(layers, markers, SelfKey)
            /\ currentLocation' =
                   SetState(currentLocation, Loc(SelfKey, p.lat, p.lng))
            /\ procs' = Resume(p, "rest")
            /\ out' = NoOut
            /\ UNCHANGED isLoadingManualLocation
       ELSE /\ out' = Out(TRUE, "none")
            /\ procs' = procs \ {p}
            /\ isLoadingManualLocation' = SetState(isLoadingManualLocation, FALSE)
            /\ UNCHANGED << markers, layers, currentLocation >>
    /\ UNCHANGED << nearbyLocations,
                    authToken, apiCall, lastFix,
                    userData, otherViews, mounted, mapInit, socketRef, sockState,
                    isTracking, isRequestingPermission, geoReq, watchId,
                    watches, nextWatch, session >>

\* ManualRestDone as it would be if the channel emit were skipped when the
\* REST update failed
ManualRestDone_EmitOnSuccess(p, outcome) ==
    /\ p \in procs /\ p.kind = "manual" /\ p.pc = "rest"
    /\ out' = Out(FALSE, IF Connected /\ Success(outcome)
                          THEN "location:update" ELSE "none")
    /\ isLoadingManualLocation' = SetState(isLoadingManualLocation, FALSE)
    /\ procs' = procs \ {p}
    /\ UNCHANGED << nearbyLocations,
                    authToken, apiCall, lastFix,
                    userData, otherViews, mounted, mapInit, socketRef, sockState,
                    isTracking, isRequestingPermission, geoReq, watchId,
                    watches, nextWatch, currentLocation, locationAddress,
                    markers, layers, session >>

\* getLocationFromCoordinates after `await locationApi.updateLocation`
ManualRestDone(p, outcome) ==
    /\ p \in procs /\ p.kind = "manual" /\ p.pc = "rest"
    /\ out' = Out(FALSE, IF Connected THEN "location:update" ELSE "none")
    /\ isLoadingManualLocation' = SetState(isLoadingManualLocation, FALSE)
    /\ procs' = procs \ {p}
    /\ UNCHANGED << nearbyLocations,
                    authToken, apiCall, lastFix,
                    userData, otherViews, mounted, mapInit, socketRef, sockState,
                    isTracking, isRequestingPermission, geoReq, watchId,
                    watches, nextWatch, currentLocation, locationAddress,
                    markers, layers, session >>

(* ------------------------ inbound push events ------------------------- *)

\* the fields of an event that the handler branches on; the address it may
\* carry is chosen in the handler's action
PushEvents ==
    [shape : PushShapes, userId : EventUserIds, lat : PushLats,
     lng : PushLngs, acc : PushAccs]

\* a number as a condition: undefined and 0 are falsy
Truthy(n) == n # NoAcc /\ n # 0

\* the handler's `location`: data.location when the event is nested, the
\* event's own fields when both coordinates are truthy, else null
HasLocation(data) ==
    \/ data.shape = "nested"
    \/ data.shape = "flat" /\ data.lat # 0 /\ data.lng # 0

\* data.userId === userData?.id || data.userId === userData?.studentId
IsCurrentUser(data) ==
    data.userId = userData.id \/ data.userId = userData.studentId

\* PassesGate as it would be with the limit ten times as wide
PassesGate_WideLimit(data) ==
    IsCurrentUser(data) \/ ~Truthy(data.acc) \/ data.acc < 10 * AccuracyLimit

\* PassesGate as it would be with `<=` for `<`
PassesGate_AtMostLimit(data) ==
    IsCurrentUser(data) \/ ~Truthy(data.acc) \/ data.acc <= AccuracyLimit

\* isCurrentUser || !accuracy || accuracy < 1000
PassesGate(data) ==
    IsCurrentUser(data) \/ ~Truthy(data.acc) \/ data.acc < AccuracyLimit

\* data.userId || userData?.id || 'current'
EventKey(data) == IF data.userId # Undef THEN data.userId ELSE SelfKey

\* updateMapMarker's own test: userId === userData?.id || userId === 'current'
MarkerIsCurrentUser(key) == key = userData.id \/ key = "current"

\* accuracy && accuracy > 1000
LowAccuracy(acc) == Truthy(acc) /\ acc > AccuracyLimit

\* socket.on('location:update')
OnLocationUpdate(data) ==
    /\ sockState = "connected"
    /\ IF HasLocation(data) /\ PassesGate(data)
       THEN /\ markers' = IF mapInit
                          THEN [markers EXCEPT
                                    ![EventKey(data)] = Pos(data.lat, data.lng)]
                          ELSE markers
            /\ layers' = IF mapInit
                         THEN ReplaceLayer(layers, markers, EventKey(data))
                         ELSE layers
            /\ currentLocation' =
                   IF \/ IsCurrentUser(data)
                      \/ mapInit /\ MarkerIsCurrentUser(EventKey(data))
                   THEN SetState(currentLocation,
                            Loc(EventKey(data), data.lat, data.lng))
                   ELSE currentLocation
            /\ \E hasAddress \in BOOLEAN :
                   locationAddress' =
                       IF IsCurrentUser(data) /\ hasAddress
                       THEN SetState(locationAddress, "Addr")
                       ELSE locationAddress
            /\ out' = IF IsCurrentUser(data) /\ LowAccuracy(data.acc)
                      THEN Out(TRUE, "none")
                      ELSE NoOut
       ELSE /\ out' = IF HasLocation(data) THEN Ignored(data.acc) ELSE NoOut
            /\ UNCHANGED << markers, layers, currentLocation, locationAddress >>
    /\ UNCHANGED << nearbyLocations,
                    authToken, apiCall, lastFix,
                    userData, otherViews, mounted, mapInit, socketRef, sockState,
                    isTracking, isRequestingPermission, geoReq, watchId,
                    watches, nextWatch, isLoadingManualLocation, procs,
                    session >>

\* socket.on('location:stopped')
OnLocationStopped(uid) ==
    /\ sockState = "connected"
    /\ IF uid = userData.id
       THEN /\ isTracking' = SetState(isTracking, FALSE)
            /\ session' = SetState(session, "remoteStopped")
       ELSE UNCHANGED << isTracking, session >>
    /\ out' = NoOut
    /\ UNCHANGED << nearbyLocations,
                    authToken, apiCall, lastFix,
                    userData, otherViews, mounted, mapInit, socketRef, sockState,
                    isRequestingPermission, geoReq, watchId, watches,
                    nextWatch, currentLocation, locationAddress, markers, layers,
                    isLoadingManualLocation, procs >>

\* socket.on('error')
OnSocketError ==
    /\ sockState = "connected"
    /\ out' = Out(TRUE, "none")
    /\ UNCHANGED << nearbyLocations,
                    authToken, apiCall, lastFix,
                    userData, otherViews, mounted, mapInit, socketRef, sockState,
                    isTracking, isRequestingPermission, geoReq, watchId,
                    watches, nextWatch, currentLocation, locationAddress,
                    markers, layers, isLoadingManualLocation, procs, session >>

(* --------------------------- nearby peers ----------------------------- *)

\* updateNearbyMarkers on the marker table: updateMapMarker for each item in
\* turn sets the marker of the item's userId
RECURSIVE UpdateNearbyMarkers(_, _)
UpdateNearbyMarkers(m, locations) ==
    IF locations = << >> THEN m
    ELSE UpdateNearbyMarkers(
             [m EXCEPT ![Head(locations).userId] =
                           Pos(Head(locations).lat, Head(locations).lng)],
             Tail(locations))

\* updateNearbyMarkers on the layers of the map: updateMapMarker for each
\* item in turn replaces the marker of the item's userId
RECURSIVE UpdateNearbyLayers(_, _, _)
UpdateNearbyLayers(l, m, locations) ==
    IF locations = << >> THEN l
    ELSE UpdateNearbyLayers(
             ReplaceLayer(l, m, Head(locations).userId),
             [m EXCEPT ![Head(locations).userId] =
                           Pos(Head(locations).lat, Head(locations).lng)],
             Tail(locations))

\* updateNearbyMarkers on currentLocation: updateMapMarker calls
\* setCurrentLocation for each item whose userId is the user's own
RECURSIVE NearbyCurrentLocation(_, _)
NearbyCurrentLocation(cur, locations) ==
    IF locations = << >> THEN cur
    ELSE NearbyCurrentLocation(
             IF MarkerIsCurrentUser(Head(locations).userId)
             THEN Loc(Head(locations).userId,
                      Head(locations).lat, Head(locations).lng)
             ELSE cur,
             Tail(locations))

\* setNearbyLocations(locations); updateNearbyMarkers(locations)
ApplyNearby(locations) ==
    /\ nearbyLocations' = SetState(nearbyLocations, locations)
    /\ markers' = IF mapInit
                  THEN UpdateNearbyMarkers(markers, locations)
                  ELSE markers
    /\ layers' = IF mapInit
                 THEN UpdateNearbyLayers(layers, markers, locations)
                 ELSE layers
    /\ currentLocation' =
           IF mapInit
           THEN SetState(currentLocation,
                         NearbyCurrentLocation(currentLocation, locations))
           ELSE currentLocation

\* SearchNearby as it would be without the test for a self position
SearchNearby_NoBaselineTest ==
    /\ mounted
    /\ CanSpawn(Proc("nearby", "rest", 0, 0))
    /\ procs' = procs \cup {Proc("nearby", "rest", 0, 0)}
    /\ out' = NoOut
    /\ UNCHANGED << nearbyLocations,
                    authToken, apiCall, lastFix,
                    userData, otherViews, mounted, mapInit, socketRef, sockState,
                    isTracking, isRequestingPermission, geoReq, watchId,
                    watches, nextWatch, currentLocation, locationAddress,
                    markers, layers, isLoadingManualLocation, session >>

\* the "Find Nearby" button: searchNearby up to its return or its await
SearchNearby ==
    /\ mounted
    /\ IF currentLocation = Null
       THEN /\ out' = Out(TRUE, "none")
            /\ UNCHANGED procs
       ELSE /\ CanSpawn(Proc("nearby", "rest",
                             currentLocation.lat, currentLocation.lng))
            /\ procs' = procs \cup
                   {Proc("nearby", "rest",
                         currentLocation.lat, currentLocation.lng)}
            /\ out' = NoOut
    /\ UNCHANGED << nearbyLocations,
                    authToken, apiCall, lastFix,
                    userData, otherViews, mounted, mapInit, socketRef, sockState,
                    isTracking, isRequestingPermission, geoReq, watchId,
                    watches, nextWatch, currentLocation, locationAddress,
                    markers, layers, isLoadingManualLocation, session >>

\* searchNearby after `await locationApi.getNearbyLocations`: the result is
\* applied when the call succeeded, and dropped silently when it did not
NearbyRestDone(p, outcome, locations) ==
    /\ p \in procs /\ p.kind = "nearby"
    /\ IF Success(outcome)
       THEN ApplyNearby(locations)
       ELSE UNCHANGED << nearbyLocations, markers, layers, currentLocation >>
    /\ procs' = procs \ {p}
    /\ out' = NoOut
    /\ UNCHANGED << authToken, apiCall, lastFix, userData, otherViews, mounted, mapInit, socketRef, sockState,
                    isTracking, isRequestingPermission, geoReq, watchId,
                    watches, nextWatch, locationAddress,
                    isLoadingManualLocation, session >>

\* socket.on('location:nearby:response') with data.locations present
OnNearbyResponse(locations) ==
    /\ sockState = "connected"
    /\ ApplyNearby(locations)
    /\ out' = NoOut
    /\ UNCHANGED << authToken, apiCall, lastFix, userData, otherViews, mounted, mapInit, socketRef, sockState,
                    isTracking, isRequestingPermission, geoReq, watchId,
                    watches, nextWatch, locationAddress,
                    isLoadingManualLocation, procs, session >>

(* ---------------------------- locationApi ----------------------------- *)

\* IsDemoMode as it would be if only a missing token meant demo mode
IsDemoMode_OnlyMissingToken(token) == token = NoToken

\* isDemoMode: !token || token === DEMO_TOKEN
IsDemoMode(token) == token = NoToken \/ token = DemoToken

\* buildHeaders(requireAuth): whether it sets the Authorization header
BuildHeaders(requireAuth, token) ==
    [contentType |-> TRUE,
     authorization |-> requireAuth /\ token # NoToken /\ token # DemoToken]

\* the response each operation builds itself in demo mode: only
\* stopLocationTracking reports success
DemoSuccess(op) == op = "stop"

\* one operation of locationApi: in demo mode a response built locally,
\* otherwise fetchWithTimeout with buildHeaders(true) and the outcome of the
\* request turned into an ApiResponse
LocationApi(op, token, outcome) ==
    IF IsDemoMode(token)
    THEN [op |-> op, network |-> FALSE, authorization |-> FALSE,
          threw |-> FALSE, success |-> DemoSuccess(op),
          message |-> "demo mode"]
    ELSE [op |-> op, network |-> TRUE,
          authorization |-> BuildHeaders(TRUE, token).authorization,
          threw |-> ApiRequest(outcome).threw,
          success |-> ApiRequest(outcome).success,
          message |-> ApiRequest(outcome).message]

\* some handler calls an operation of locationApi
CallLocationApi(op, outcome) ==
    /\ apiCall' = LocationApi(op, authToken, outcome)
    /\ out' = NoOut
    /\ UNCHANGED << nearbyLocations,
                    authToken, lastFix,
                    userData, otherViews, mounted, mapInit, socketRef,
                    sockState, isTracking, isRequestingPermission, geoReq,
                    watchId, watches, nextWatch, currentLocation,
                    locationAddress, markers, layers, isLoadingManualLocation,
                    procs, session >>

(* ------------------------------ teardown ------------------------------ *)

\* the watchId the mount effect's cleanup closes over: the effect ran after
\* the first render, where watchId is its initial value
CleanupWatchId == NoWatch

\* the view is torn down: the mount effect's cleanup.  Whether the map
\* container ref is still attached when the cleanup runs depends on the
\* order in which React detaches refs and runs passive cleanups.  The
\* component's useState cells go with the component: they read as their
\* initial values from here on and no setter reaches them (SetState).
Unmount(refAttached) ==
    /\ mounted
    /\ mounted' = FALSE
    /\ isTracking' = FALSE
    /\ isRequestingPermission' = FALSE
    /\ watchId' = NoWatch
    /\ currentLocation' = Null
    /\ locationAddress' = ""
    /\ isLoadingManualLocation' = FALSE
    /\ session' = "never"
    /\ watches' = IF CleanupWatchId # NoWatch
                  THEN watches \ {CleanupWatchId}
                  ELSE watches
    /\ socketRef' = FALSE
    /\ sockState' = IF Connected THEN "closed" ELSE sockState
    /\ IF mapInit /\ refAttached
       THEN /\ markers' = [k \in Keys |-> Null]
            /\ layers' = [k \in Keys |->
                             RemoveLayer(layers, markers, k)[k]]
            /\ mapInit' = FALSE
       ELSE UNCHANGED << markers, layers, mapInit >>
    /\ nearbyLocations' = << >>
    /\ out' = NoOut
    /\ lastFix' = Null
    /\ UNCHANGED << authToken, apiCall, userData, otherViews, geoReq, nextWatch, procs >>

(* --------------------------- specifications --------------------------- *)

\* the map, the socket and the teardown of the view
Lifecycle ==
    \/ InitializeMap
    \/ ConnectSocket
    \/ OnConnect
    \/ OnDisconnect
    \/ \E refAttached \in BOOLEAN : Unmount(refAttached)

\* starting and running a tracking session: the tracking button while it
\* reads "Start", the platform's callbacks, the continuations of the async
\* callbacks, and the channel events that reach the session
Starting ==
    \/ StartTracking
    \/ \E fix \in GeoFixes : InitialFix(fix)
    \/ \E code \in GeoErrors : InitialFixError(code)
    \/ \E p \in procs, addr \in GeocodeResults : InitAddrDone(p, addr)
    \/ \E p \in procs, outcome \in RestOutcomes : InitRestDone(p, outcome)
    \/ \E w \in watches, fix \in GeoFixes : WatchFix(w, fix)
    \/ \E w \in watches, code \in GeoErrors : WatchError(w, code)
    \/ \E p \in procs, addr \in GeocodeResults : WatchAddrDone(p, addr)
    \/ \E p \in procs, outcome \in RestOutcomes : WatchRestDone(p, outcome)
    \/ \E uid \in EventUserIds : OnLocationStopped(uid)
    \/ OnSocketError

\* the tracking button while it reads "Stop"
Stopping ==
    \/ StopTracking
    \/ \E p \in procs, outcome \in RestOutcomes : StopRestDone(p, outcome)

\* manual coordinate entry
Manual ==
    \/ \E latStr \in ManualLatStrings, lngStr \in ManualLngStrings :
           GetLocationFromCoordinates(latStr, lngStr)
    \/ \E p \in procs, addr \in GeocodeResults : ManualAddrDone(p, addr)
    \/ \E p \in procs, outcome \in RestOutcomes : ManualRestDone(p, outcome)

\* inbound position updates
Push == \E data \in PushEvents : OnLocationUpdate(data)

NextTrack == Lifecycle \/ Starting \/ Stopping

NextNoStop == Lifecycle \/ Starting

NextPush == Lifecycle \/ Push

NextManual == Lifecycle \/ Manual

\* the view while the user tracks and nobody else reports a position
SpecTrack == Init /\ [][NextTrack]_vars

\* the same, for a user who never presses "Stop"
SpecNoStop == Init /\ [][NextNoStop]_vars

\* the view while positions arrive over the push channel
SpecPush == Init /\ [][NextPush]_vars

\* the view while positions are entered by hand
SpecManual == Init /\ [][NextManual]_vars

\* the fixes of a session that starts and runs without failing
SessionFixes ==
    \/ StartTracking
    \/ \E fix \in GeoFixes : InitialFix(fix)
    \/ \E p \in procs, addr \in GeocodeResults : InitAddrDone(p, addr)
    \/ \E p \in procs, outcome \in RestOutcomes : InitRestDone(p, outcome)
    \/ \E w \in watches, fix \in GeoFixes : WatchFix(w, fix)
    \/ \E p \in procs, addr \in GeocodeResults : WatchAddrDone(p, addr)
    \/ \E p \in procs, outcome \in RestOutcomes : WatchRestDone(p, outcome)

\* the fixes that are propagated: those of a session, and positions entered
\* by hand
Fixes == SessionFixes \/ Manual

NextFixes == Lifecycle \/ Fixes

\* the view while fixes of all three kinds are propagated
SpecFixes == Init /\ [][NextFixes]_vars

\* the proximity query and the proximity results pushed on the channel
Nearby ==
    \/ SearchNearby
    \/ \E p \in procs, outcome \in RestOutcomes, locations \in NearbyResults :
           NearbyRestDone(p, outcome, locations)
    \/ \E locations \in NearbyResults : OnNearbyResponse(locations)

NextNearby == Lifecycle \/ Manual \/ Nearby

\* the view while the user, positioned by hand, looks for peers nearby
SpecNearby == Init /\ [][NextNearby]_vars

\* the REST client of the location endpoints
Api == \E op \in LocationOps, outcome \in RestOutcomes :
           CallLocationApi(op, outcome)

NextApi == Lifecycle \/ Api

\* the view and its REST client in a session of any kind
SpecApi == InitAnyToken /\ [][NextApi]_vars

NextRest == Lifecycle \/ SessionFixes \/ Api

\* the view while a session runs, together with its REST client
SpecRest == Init /\ [][NextRest]_vars

\* inbound position updates of the current user
SelfPush ==
    \E data \in PushEvents : IsCurrentUser(data) /\ OnLocationUpdate(data)

NextSelf == Lifecycle \/ SessionFixes \/ SelfPush

\* the view while the self position comes from the session and from the
\* push channel
SpecSelf == Init /\ [][NextSelf]_vars

Next == Lifecycle \/ Starting \/ Stopping \/ Manual \/ Push \/ Nearby \/ Api

Spec == Init /\ [][Next]_vars

(* ------------------------------- claims ------------------------------- *)

\* C1: once stopTracking has run and the session is Stopped (no watch is
\* registered any more), the late completion of a watch callback's address
\* lookup or REST update leaves currentLocation as it was.
C1_LateCompletionIgnored ==
    [][\A p \in procs :
          ( /\ mounted /\ session = "userStopped" /\ ~isTracking
            /\ watches = {}
            /\ p.kind = "watch"
            /\ \/ \E addr \in GeocodeResults : WatchAddrDone(p, addr)
               \/ \E outcome \in RestOutcomes : WatchRestDone(p, outcome) )
          => currentLocation' = currentLocation]_vars

\* C2: a 'location:update' of a peer (not the current user) whose accuracy
\* is greater than 1000 leaves every marker and currentLocation as they
\* were; a peer without an entry gets none.
C2_PeerLowAccuracyDropped ==
    [][\A data \in PushEvents :
          ( /\ ~IsCurrentUser(data)
            /\ data.acc > AccuracyLimit
            /\ OnLocationUpdate(data) )
          => /\ markers' = markers
             /\ currentLocation' = currentLocation]_vars

\* C2 witness: a peer update with accuracy above 1000 has just been ignored
\* while the map is up and the peer p1 has no marker.
C2_Witness ==
    /\ mounted /\ mapInit
    /\ out.ignored > AccuracyLimit
    /\ markers["p1"] = Null

\* C3: a 'location:update' of the current user sets currentLocation to the
\* update's coordinates whatever its accuracy, and showError is called
\* exactly when the accuracy is greater than 1000.
C3_SelfUpdateAlwaysApplied ==
    [][\A data \in PushEvents :
          ( /\ mounted
            /\ IsCurrentUser(data)
            /\ OnLocationUpdate(data) )
          => /\ currentLocation' # Null
             /\ currentLocation'.lat = data.lat
             /\ currentLocation'.lng = data.lng
             /\ out'.error <=> data.acc > AccuracyLimit]_vars

\* C4 as claimed: a peer update that carries a location, with accuracy
\* absent or at most 1000 (1000 included), is put on the map.
C4_AppliedUpTo1000 ==
    [][\A data \in PushEvents :
          ( /\ mapInit
            /\ HasLocation(data)
            /\ ~IsCurrentUser(data)
            /\ (data.acc = NoAcc \/ data.acc <= AccuracyLimit)
            /\ OnLocationUpdate(data) )
          => markers'[EventKey(data)] = Pos(data.lat, data.lng)]_vars

\* C4 as amended: a peer update that reaches the gate is put on the map (once
\* there is a map) when its accuracy is absent or below 1000, and is logged
\* as ignored and changes no marker when its accuracy is 1000 or more.
C4_GateDiscardsFrom1000 ==
    [][\A data \in PushEvents :
          ( /\ HasLocation(data)
            /\ ~IsCurrentUser(data)
            /\ OnLocationUpdate(data) )
          => IF data.acc = NoAcc \/ data.acc < AccuracyLimit
             THEN /\ out'.ignored = NoAcc
                  /\ mapInit => markers'[EventKey(data)] = Pos(data.lat, data.lng)
             ELSE /\ out'.ignored = data.acc
                  /\ markers' = markers]_vars

\* C4 witness: the peer p1 is on the map and an update with accuracy exactly
\* 1000 has just been ignored.
C4_Witness ==
    /\ mounted /\ mapInit
    /\ markers["p1"] # Null
    /\ out.ignored = AccuracyLimit

\* C5: as long as stopTracking is never called, at most one geolocation
\* watch is registered and not cleared.
C5_AtMostOneWatch == Cardinality(watches) <= 1

\* C6: while the view is mounted, a Stopped session has no registered watch
\* and an Active session whose start has finished has exactly one.
C6_SessionAgreesWithWatch ==
    mounted =>
        IF isTracking
        THEN (\A p \in procs : p.kind # "init") => Cardinality(watches) = 1
        ELSE watches = {}

\* C7: stopTracking stops locally before it calls REST (isTracking false, the
\* watch held in watchId cleared, watchId null, no error shown), and when the
\* REST stop call returns, whatever its outcome, 'location:stop' is emitted
\* exactly when the channel is connected, no error is shown and the session
\* is left as it was.
C7_StopSucceedsLocally ==
    [][ /\ StopTracking =>
            /\ ~isTracking'
            /\ watchId' = NoWatch
            /\ watchId \notin watches'
            /\ ~out'.error
        /\ \A p \in procs, outcome \in RestOutcomes :
              StopRestDone(p, outcome) =>
                  /\ out'.emit = (IF Connected THEN "location:stop" ELSE "none")
                  /\ ~out'.error
                  /\ isTracking' = isTracking
                  /\ watchId' = watchId
                  /\ watches' = watches ]_vars

\* C7 witness: the stop of a session that held a watch has completed with
\* the channel connected.
C7_Witness ==
    /\ mounted /\ session = "userStopped" /\ ~isTracking
    /\ nextWatch > 1 /\ watches = {}
    /\ out.emit = "location:stop"

\* C8: tearing the view down while a session is Active cancels the watch
\* that startTracking registered and leaves the channel disconnected.
C8_TeardownCancelsWatch ==
    [][ ( /\ mounted /\ ~mounted'
          /\ isTracking /\ watchId # NoWatch )
        => /\ watchId \notin watches'
           /\ sockState' # "connected" ]_vars

\* C9: a manual submission whose latitude is not a number in [-90, 90] or
\* whose longitude is not a number in [-180, 180] starts no geocoder or REST
\* call, emits nothing, shows an error, and leaves currentLocation, the
\* markers and the address as they were.
C9_InvalidManualRejected ==
    [][\A latStr \in ManualLatStrings, lngStr \in ManualLngStrings :
          LET lat == ParseFloat(Trim(latStr))
              lng == ParseFloat(Trim(lngStr))
          IN  ( /\ \/ lat.nan \/ lat.val < -90 \/ lat.val > 90
                   \/ lng.nan \/ lng.val < -180 \/ lng.val > 180
                /\ GetLocationFromCoordinates(latStr, lngStr) )
              => /\ procs' = procs
                 /\ currentLocation' = currentLocation
                 /\ markers' = markers
                 /\ locationAddress' = locationAddress
                 /\ out'.error
                 /\ out'.emit = "none"]_vars

\* C9 witness: an error has just been shown while nothing else has happened
\* in the view: no socket, no lookup made, no position.  Only the rejection
\* of a manual submission shows an error in such a state.
C9_Witness ==
    /\ mounted /\ out.error
    /\ sockState = "noscript"
    /\ procs = {} /\ locationAddress = "" /\ currentLocation = Null

\* C10 as claimed: in every state a valid manual position becomes
\* currentLocation and is sent to REST when its address lookup returns.
C10_ManualPropagatesAlways ==
    [][\A p \in procs, addr \in GeocodeResults :
          ( mounted /\ ManualAddrDone(p, addr) )
          => /\ currentLocation' = Loc(SelfKey, p.lat, p.lng)
             /\ [p EXCEPT !.pc = "rest"] \in procs']_vars

\* C10 as amended: when the address lookup of a valid manual position
\* returns and the map is initialised, the pair becomes currentLocation and
\* the self marker and the REST update is issued; when that call returns,
\* whatever its outcome, 'location:update' is emitted exactly when the
\* channel is connected.  Without a map the submission ends with an error:
\* currentLocation is unchanged and nothing is sent.
C10_ManualPropagatesWithMap ==
    [][ /\ \A p \in procs, addr \in GeocodeResults :
              ( mounted /\ ManualAddrDone(p, addr) )
              => IF mapInit
                 THEN /\ currentLocation' = Loc(SelfKey, p.lat, p.lng)
                      /\ markers'[SelfKey] = Pos(p.lat, p.lng)
                      /\ [p EXCEPT !.pc = "rest"] \in procs'
                 ELSE /\ currentLocation' = currentLocation
                      /\ procs' = procs \ {p}
                      /\ out'.error
        /\ \A p \in procs, outcome \in RestOutcomes :
              ManualRestDone(p, outcome)
              => out'.emit = (IF Connected THEN "location:update" ELSE "none")
      ]_vars

\* C10 witness: a manual position is currentLocation and its update has just
\* been emitted on the channel.
C10_Witness ==
    /\ mounted
    /\ currentLocation = Loc(SelfKey, 90, 180)
    /\ out.emit = "location:update"

\* C11: when the first fix requested by startTracking fails (permission
\* denied, position unavailable, timeout), tracking does not start:
\* isTracking is false, no watch is registered and no handler is started (so
\* no REST update is issued), nothing is emitted, currentLocation is as it
\* was, and an error is shown.
C11_FailedStartStartsNothing ==
    [][\A code \in GeoErrors :
          InitialFixError(code)
          => /\ ~isTracking'
             /\ watches' = watches /\ nextWatch' = nextWatch
             /\ watchId' = watchId
             /\ procs' = procs
             /\ out'.emit = "none"
             /\ currentLocation' = currentLocation
             /\ out'.error]_vars

\* C11 witness: the first start of the view has just failed: an error is
\* shown, no session was ever Active and the permission request is over.
C11_Witness ==
    /\ mounted /\ out.error
    /\ session = "never" /\ nextWatch = 1
    /\ ~geoReq /\ ~isRequestingPermission /\ ~isTracking
    /\ sockState = "noscript"

C13_LocalUpdateBeforeRest ==
    mounted =>
        \A p \in procs :
            ( /\ p.kind \in {"init", "watch", "manual"}
              /\ p.pc = "rest"
              /\ procs = {p} )
            => currentLocation = Loc(SelfKey, p.lat, p.lng)

\* C14: a reverse-geocode lookup that has not yet returned does not delay
\* its fix: while the view is mounted and the lookup of a fix is pending (no
\* other handler in flight), the fix already is currentLocation.
C14_LookupDoesNotDelayFix ==
    mounted =>
        \A p \in procs :
            ( p.pc = "addr" /\ procs = {p} )
            => currentLocation = Loc(SelfKey, p.lat, p.lng)

\* C15: searchNearby while currentLocation is null starts no proximity
\* query, shows an error, and leaves the nearby list and every marker as they
\* were.
C15_NoBaselineNoQuery ==
    [][ ( currentLocation = Null /\ SearchNearby )
        => /\ procs' = procs
           /\ out'.error
           /\ out'.emit = "none"
           /\ nearbyLocations' = nearbyLocations
           /\ markers' = markers ]_vars

\* C15 witness: an error has just been shown while there is no self position
\* and the manual button is disabled (a lookup is pending), so that the
\* error can only be the one of "Find Nearby".
C15_Witness ==
    /\ mounted /\ out.error
    /\ currentLocation = Null
    /\ isLoadingManualLocation

\* the peers a proximity result names
NearbyIds(locations) == {locations[i].userId : i \in 1 .. Len(locations)}

\* C16: after a successful searchNearby with the map up, every peer of the
\* result has its marker at the returned position and every other peer has
\* no marker.
C16_PeerSetReplaced ==
    [][\A p \in procs, locations \in NearbyResults :
          ( /\ mounted /\ mapInit
            /\ NearbyRestDone(p, "ok", locations) )
          => \A k \in Keys \ {userData.id, "current"} :
                IF k \in NearbyIds(locations)
                THEN \E i \in 1 .. Len(locations) :
                        /\ locations[i].userId = k
                        /\ markers'[k] =
                               Pos(locations[i].lat, locations[i].lng)
                ELSE markers'[k] = Null]_vars

\* C17: applying a proximity result, from REST or from the channel, leaves
\* currentLocation and the self marker as they were.
C17_NearbyKeepsSelf ==
    [][\A locations \in NearbyResults :
          ( /\ mounted
            /\ \/ \E p \in procs : NearbyRestDone(p, "ok", locations)
               \/ OnNearbyResponse(locations) )
          => /\ currentLocation' = currentLocation
             /\ markers'[SelfKey] = markers[SelfKey]]_vars

\* C18: when stopTracking has completed, the push channel is not connected.
C18_StopDisconnectsChannel ==
    [][\A p \in procs, outcome \in RestOutcomes :
          ( mounted /\ StopRestDone(p, outcome) )
          => ~(socketRef' /\ sockState' = "connected")]_vars

\* C19: while tracking is Active, neither a REST call that fails nor an
\* 'error' event of the channel shows an error to the user.
C19_NoErrorShownWhileActive ==
    [][ ( /\ mounted /\ isTracking /\ session = "active"
          /\ \/ OnSocketError
             \/ \E p \in procs, outcome \in RestOutcomes \ {"ok"} :
                    \/ InitRestDone(p, outcome)
                    \/ WatchRestDone(p, outcome) )
        => ~out'.error ]_vars

\* C20: with the demo sentinel as the stored token, every operation of
\* locationApi (update, current, history, nearby, stop) returns a response
\* built locally without a network request, and buildHeaders sets no
\* Authorization header for the sentinel, whether or not auth is required.
C20_DemoTokenStaysLocal ==
    [][ authToken = DemoToken
        => /\ \A op \in LocationOps, outcome \in RestOutcomes :
                 CallLocationApi(op, outcome)
                 => /\ apiCall'.op = op
                    /\ ~apiCall'.network
                    /\ ~apiCall'.authorization
                    /\ apiCall'.success = DemoSuccess(op)
           /\ \A requireAuth \in BOOLEAN :
                 ~BuildHeaders(requireAuth, authToken).authorization ]_vars

\* C20 witness: in a demo session stopLocationTracking has answered locally
\* with success.
C20_Witness ==
    /\ authToken = DemoToken
    /\ apiCall.op = "stop" /\ apiCall.success /\ ~apiCall.network

\* the ways a request can fail without an answer of the server
Expiries == {"timeout", "network"}

\* C21: a location REST call whose timeout expires or whose connection fails
\* returns an ApiResponse with success = false and throws nothing, and the
\* handler that awaited it leaves the session as it was: isTracking and the
\* session are unchanged, no registered watch is cleared, no error is shown.
C21_ExpiryIsRecoverable ==
    [][ /\ \A op \in LocationOps, outcome \in Expiries :
              CallLocationApi(op, outcome)
              => /\ apiCall'.network
                 /\ ~apiCall'.threw
                 /\ ~apiCall'.success
                 /\ isTracking' = isTracking
                 /\ watches' = watches
        /\ \A p \in procs, outcome \in Expiries :
              ( \/ InitRestDone(p, outcome)
                \/ WatchRestDone(p, outcome) )
              => /\ isTracking' = isTracking
                 /\ session' = session
                 /\ watches \subseteq watches'
                 /\ ~out'.error ]_vars

\* C21 witness: in an Active session with its watch registered, an update
\* call has ended with the timeout failure value.
C21_Witness ==
    /\ mounted /\ isTracking /\ watches # {}
    /\ apiCall.op = "update" /\ apiCall.network
    /\ ~apiCall.threw /\ ~apiCall.success /\ apiCall.message = "timeout"

\* C22: every key has at most one marker layer on the map, and exactly the
\* keys registered in the marker table have one: replacing the position of a
\* subject leaves no older marker of it on the map.
C22_OneMarkerPerSubject ==
    \A k \in Keys : layers[k] = (IF markers[k] # Null THEN 1 ELSE 0)

\* C22 witness: the marker of peer p1 has been replaced by one at another
\* position, next to the marker of another subject.
C22_Witness ==
    /\ mounted /\ mapInit
    /\ markers["p1"] = Pos(12, 77)
    /\ markers["p2"] = Pos(22, 88)
    /\ nearbyLocations = << NearbyItem("p1", 12, 77), NearbyItem("p2", 22, 88) >>
    /\ \E k \in Keys \ {"p1", "p2"} : markers[k] # Null

\* C23: the self entry is reconciled by last write only.  While the view is
\* mounted, the completion of the REST update of an initial or continuous
\* fix, and a push update of the current user that passes the handler, each
\* set currentLocation to their own position whatever it holds and whatever
\* fix was delivered last; so a fix delivered earlier whose handler finishes
\* later overwrites a newer one.
C23_LastWriteWins ==
    [][ mounted
        => /\ \A p \in procs, outcome \in RestOutcomes :
                 ( InitRestDone(p, outcome) \/ WatchRestDone(p, outcome) )
                 => currentLocation' = Loc(SelfKey, p.lat, p.lng)
           /\ ( sockState = "connected" /\ procs' = procs )
              => \A data \in PushEvents :
                    ( /\ IsCurrentUser(data) /\ HasLocation(data)
                      /\ OnLocationUpdate(data) )
                    => currentLocation' =
                           Loc(EventKey(data), data.lat, data.lng) ]_vars

\* C23 witness: with no push channel, every handler of the session has
\* finished and currentLocation is not the fix that was delivered last: an
\* older fix was written over it.
C23_Witness ==
    /\ mounted /\ isTracking /\ sockState = "noscript"
    /\ procs = {} /\ ~geoReq
    /\ lastFix # Null /\ currentLocation # Null
    /\ Pos(currentLocation.lat, currentLocation.lng) # lastFix

\* C24: when the user has stopped tracking while the handler of the initial
\* fix was suspended, the handler registers no watch when it resumes.
C24_NoWatchAfterStop ==
    [][\A p \in procs, outcome \in RestOutcomes :
          ( /\ mounted /\ session = "userStopped" /\ ~isTracking
            /\ InitRestDone(p, outcome) )
          => watches' = watches]_vars

\* C25: once the session is Stopped (by stopTracking, by a watch error or by
\* 'location:stopped') and until the next start, no handler of a session fix
\* issues a REST update or emits 'location:update'.
C25_NoSendsWhenStopped ==
    [][ ( /\ mounted /\ ~isTracking /\ ~geoReq
          /\ session \in {"userStopped", "errorStopped", "remoteStopped"} )
        => /\ \A p \in procs, addr \in GeocodeResults :
                 ( InitAddrDone(p, addr) \/ WatchAddrDone(p, addr) )
                 => [p EXCEPT !.pc = "rest"] \notin procs'
           /\ \A p \in procs, outcome \in RestOutcomes :
                 ( InitRestDone(p, outcome) \/ WatchRestDone(p, outcome) )
                 => out'.emit = "none" ]_vars

\* the keys of markersRef that name the current user: userData.id,
\* userData.studentId and the fallback 'current'
SelfKeys ==
    { k \in Keys : k = userData.id \/ k = userData.studentId \/ k = "current" }

\* C26: every update path files the current user under the same key, so the
\* map never holds more than one marker of the current user.
C26_OneSelfMarker ==
    Cardinality({ k \in SelfKeys : markers[k] # Null }) <= 1

(* ---------------------------- CourseDetail ---------------------------- *)

\* isPreview of the lessons of a course, in the order of courseData.lessons
LessonLists == { <<TRUE, FALSE>>, <<FALSE, TRUE, FALSE>>, <<TRUE, TRUE>>, << >> }

\* the data of a successful getCourseDetails
CourseResponses == [isEnrolled : BOOLEAN, lessons : LessonLists]

\* the data of a successful enrollInCourse
EnrollResults == {"enrolled", "waitlist"}

\* what the coupon input can hold
CouponTexts == {"", "SAVE10"}

\* one operation of coursesApi: in demo mode a failure built locally,
\* otherwise the outcome of the request turned into an ApiResponse
CoursesApi(token, outcome) ==
    IF IsDemoMode(token)
    THEN [threw |-> FALSE, success |-> FALSE, message |-> "demo mode"]
    ELSE ApiRequest(outcome)

\* courseData.lessons[i], i counted from 0; Null for undefined
LessonAt(i) ==
    IF i + 1 \in DOMAIN courseData.lessons
    THEN [index |-> i, isPreview |-> courseData.lessons[i + 1]]
    ELSE Null

\* the page past `if (isLoading)` and `if (!courseData)`
CourseShown == ~isLoading /\ courseData # Null

\* fetchCourseDetails from getCourseDetails' return to its end
ApplyCourseDetails(outcome, data) ==
    /\ courseData' = IF CoursesApi(authToken, outcome).success
                      THEN data
                      ELSE courseData
    /\ isLoading' = FALSE

\* fetchCourseDetails of the mount effect returns
DetailsDone(outcome, data) ==
    /\ detailCalls > 0
    /\ detailCalls' = detailCalls - 1
    /\ ApplyCourseDetails(outcome, data)
    /\ UNCHANGED << userData, authToken, viewVars, appVars, payVars,
                    selectedLesson, selectedLessonIndex, isEnrolling,
                    couponCode, showCouponInput, enrollCalls, enrollRefresh,
                    enrollIgnored >>

\* handleLessonClick(lesson)
HandleLessonClick(i) ==
    /\ CourseShown
    /\ i \in 0 .. Len(courseData.lessons) - 1
    /\ IF ~courseData.isEnrolled /\ ~LessonAt(i).isPreview
       THEN UNCHANGED << selectedLesson, selectedLessonIndex >>
       ELSE /\ selectedLessonIndex' = i
            /\ selectedLesson' = LessonAt(i)
    /\ UNCHANGED << userData, authToken, viewVars, appVars, payVars,
                    courseData, isLoading, isEnrolling, couponCode,
                    showCouponInput, detailCalls, enrollCalls, enrollRefresh,
                    enrollIgnored >>

\* handleNextLesson, from the viewer's Next button
HandleNextLesson ==
    /\ CourseShown /\ selectedLesson # Null
    /\ IF selectedLessonIndex >= 0
          /\ selectedLessonIndex + 1 < Len(courseData.lessons)
       THEN /\ selectedLessonIndex' = selectedLessonIndex + 1
            /\ selectedLesson' = LessonAt(selectedLessonIndex + 1)
       ELSE UNCHANGED << selectedLesson, selectedLessonIndex >>
    /\ UNCHANGED << userData, authToken, viewVars, appVars, payVars,
                    courseData, isLoading, isEnrolling, couponCode,
                    showCouponInput, detailCalls, enrollCalls, enrollRefresh,
                    enrollIgnored >>

\* handlePreviousLesson, from the viewer's Previous button
HandlePreviousLesson ==
    /\ CourseShown /\ selectedLesson # Null
    /\ IF selectedLessonIndex >= 0 /\ selectedLessonIndex - 1 >= 0
       THEN /\ selectedLessonIndex' = selectedLessonIndex - 1
            /\ selectedLesson' = LessonAt(selectedLessonIndex - 1)
       ELSE UNCHANGED << selectedLesson, selectedLessonIndex >>
    /\ UNCHANGED << userData, authToken, viewVars, appVars, payVars,
                    courseData, isLoading, isEnrolling, couponCode,
                    showCouponInput, detailCalls, enrollCalls, enrollRefresh,
                    enrollIgnored >>

\* handleCloseLessonViewer
HandleCloseLessonViewer ==
    /\ CourseShown /\ selectedLesson # Null
    /\ selectedLesson' = Null
    /\ selectedLessonIndex' = -1
    /\ UNCHANGED << userData, authToken, viewVars, appVars, payVars,
                    courseData, isLoading, isEnrolling, couponCode,
                    showCouponInput, detailCalls, enrollCalls, enrollRefresh,
                    enrollIgnored >>

\* the coupon controls of a course that is not free: "Have a coupon?",
\* the input's onChange, and Cancel
EditCoupon ==
    /\ CourseShown /\ ~courseData.isEnrolled
    /\ \/ /\ ~showCouponInput
          /\ showCouponInput' = TRUE
          /\ UNCHANGED couponCode
       \/ /\ showCouponInput
          /\ showCouponInput' = TRUE
          /\ couponCode' \in CouponTexts \ {couponCode}
       \/ /\ showCouponInput
          /\ showCouponInput' = FALSE
          /\ couponCode' = ""
    /\ UNCHANGED << userData, authToken, viewVars, appVars, payVars,
                    courseData, isLoading, selectedLesson, selectedLessonIndex,
                    isEnrolling, detailCalls, enrollCalls, enrollRefresh,
                    enrollIgnored >>

\* HandleEnroll as it would be without `if (isEnrolling) return` and without
\* the button's disabled={isEnrolling}
HandleEnroll_NoGuard ==
    /\ CourseShown /\ ~courseData.isEnrolled
    /\ enrollCalls + enrollRefresh < MaxProcs
    /\ isEnrolling' = TRUE
    /\ enrollCalls' = enrollCalls + 1
    /\ enrollIgnored' = isEnrolling
    /\ UNCHANGED << userData, authToken, viewVars, appVars, payVars,
                    courseData, isLoading, selectedLesson, selectedLessonIndex,
                    couponCode, showCouponInput, detailCalls, enrollRefresh >>

\* handleEnroll up to `await coursesApi.enrollInCourse`
HandleEnroll ==
    /\ CourseShown /\ ~courseData.isEnrolled
    /\ IF isEnrolling
       THEN /\ enrollIgnored' = TRUE
            /\ UNCHANGED << isEnrolling, enrollCalls >>
       ELSE /\ isEnrolling' = TRUE
            /\ enrollCalls' = enrollCalls + 1
            /\ enrollIgnored' = FALSE
    /\ UNCHANGED << userData, authToken, viewVars, appVars, payVars,
                    courseData, isLoading, selectedLesson, selectedLessonIndex,
                    couponCode, showCouponInput, detailCalls, enrollRefresh >>

\* handleEnroll from enrollInCourse's return: to its end, or to
\* `await fetchCourseDetails()` after an enrollment
EnrollDone(outcome, result) ==
    /\ enrollCalls > 0
    /\ enrollCalls' = enrollCalls - 1
    /\ IF CoursesApi(authToken, outcome).success
       THEN IF result = "waitlist"
            THEN /\ couponCode' = ""
                 /\ showCouponInput' = FALSE
                 /\ isEnrolling' = FALSE
                 /\ UNCHANGED << isLoading, enrollRefresh >>
            ELSE /\ isLoading' = TRUE
                 /\ enrollRefresh' = enrollRefresh + 1
                 /\ UNCHANGED << couponCode, showCouponInput, isEnrolling >>
       ELSE /\ isEnrolling' = FALSE
            /\ UNCHANGED << couponCode, showCouponInput, isLoading,
                            enrollRefresh >>
    /\ UNCHANGED << userData, authToken, viewVars, appVars, payVars,
                    courseData, selectedLesson, selectedLessonIndex,
                    detailCalls, enrollIgnored >>

\* handleEnroll from fetchCourseDetails' return to its end
EnrollRefreshDone(outcome, data) ==
    /\ enrollRefresh > 0
    /\ enrollRefresh' = enrollRefresh - 1
    /\ ApplyCourseDetails(outcome, data)
    /\ couponCode' = ""
    /\ showCouponInput' = FALSE
    /\ isEnrolling' = FALSE
    /\ UNCHANGED << userData, authToken, viewVars, appVars, payVars,
                    selectedLesson, selectedLessonIndex, detailCalls,
                    enrollCalls, enrollIgnored >>

\* a CourseDetail right after its first render, fetchCourseDetails in flight
InitCourse ==
    /\ userData \in UserDatas
    /\ authToken \in Tokens
    /\ mounted = FALSE
    /\ ViewIdle
    /\ AppShows("course-detail")
    /\ CourseState(1)
    /\ PayState(0)

Lessons ==
    \/ \E i \in 0 .. 2 : HandleLessonClick(i)
    \/ HandleNextLesson
    \/ HandlePreviousLesson
    \/ HandleCloseLessonViewer

Enrolling ==
    \/ EditCoupon
    \/ HandleEnroll
    \/ \E outcome \in RestOutcomes, result \in EnrollResults :
          EnrollDone(outcome, result)
    \/ \E outcome \in RestOutcomes, data \in CourseResponses :
          EnrollRefreshDone(outcome, data)

NextCourse ==
    \/ \E outcome \in RestOutcomes, data \in CourseResponses :
          DetailsDone(outcome, data)
    \/ Lessons
    \/ Enrolling

SpecCourse == InitCourse /\ [][NextCourse]_vars

(* ------------------------------- claims ------------------------------- *)

\* C27: a user who is not enrolled never gets a lesson that is not a preview
\* into the lesson viewer by a lesson click or by Next/Previous.
C27_PreviewOnly ==
    [][ ( /\ CourseShown /\ ~courseData.isEnrolled
          /\ \/ \E i \in 0 .. 2 : HandleLessonClick(i)
             \/ HandleNextLesson
             \/ HandlePreviousLesson )
        => ( selectedLesson' = Null \/ selectedLesson'.isPreview ) ]_vars

\* C29: at most one enrollInCourse request is in flight, and isEnrolling is
\* false whenever no handleEnroll invocation is in progress.
C29_OneEnrollment ==
    /\ enrollCalls <= 1
    /\ ( enrollCalls + enrollRefresh = 0 => ~isEnrolling )

\* handleEnroll was called while an enrollInCourse request was in flight
C29_Witness ==
    /\ enrollIgnored /\ isEnrolling
    /\ enrollCalls = 1

(* ----------------------------- AppContent ----------------------------- *)

\* demoUserData of handleDemoLogin
DemoUser == [id |-> "demo-user", studentId |-> Undef]

\* the users a session can belong to
AppUsers == UserDatas \cup {DemoUser}

\* the views of the sidebar and of the course lists that keep no state of
\* their own here
PlainViews == {"dashboard", "courses", "enrolled-courses", "messages", "settings"}

\* studentApi.logout: success in demo mode and when the request throws,
\* otherwise what handleResponse makes of the response
StudentLogout(token, outcome) ==
    IF IsDemoMode(token)
    THEN [threw |-> FALSE, success |-> TRUE, message |-> "Logged out successfully"]
    ELSE LET r == FetchWithTimeout(outcome)
         IN  IF r.threw
             THEN [threw |-> FALSE, success |-> TRUE,
                   message |-> "Logged out from this device"]
             ELSE HandleResponse(r)

\* a CourseDetail is mounted (detailCalls = 1, its mount effect) or
\* unmounted (detailCalls = 0): its cells take their initial values
CourseRemount(calls) ==
    /\ courseData' = Null
    /\ isLoading' = TRUE
    /\ selectedLesson' = Null
    /\ selectedLessonIndex' = -1
    /\ isEnrolling' = FALSE
    /\ couponCode' = ""
    /\ showCouponInput' = FALSE
    /\ detailCalls' = calls
    /\ enrollCalls' = 0
    /\ enrollRefresh' = 0
    /\ enrollIgnored' = FALSE

\* what rendering view v after currentView does to the CourseDetail
Render(v) ==
    IF v = "course-detail" /\ currentView # "course-detail"
    THEN CourseRemount(1)
    ELSE IF v # "course-detail" /\ currentView = "course-detail"
    THEN CourseRemount(0)
    ELSE UNCHANGED courseVars

\* AppContent after its mount effect read localStorage
InitApp ==
    /\ authToken \in Tokens
    /\ storedUserData \in BOOLEAN
    /\ IF authToken # NoToken /\ storedUserData
       THEN userData \in AppUsers /\ isAuthenticated = TRUE
       ELSE userData = Null /\ isAuthenticated = FALSE
    /\ currentView = "dashboard"
    /\ selectedCourseId = NoCourse
    /\ showLogoutModal = FALSE
    /\ isLoggingOut = FALSE
    /\ logoutCalls = 0
    /\ toast = "none"
    /\ mounted = FALSE
    /\ ViewIdle
    /\ CourseState(0)
    /\ PayState(0)

\* LoginPage's login succeeds: it stores the token and the user, then handleLogin
HandleLogin(u) ==
    /\ ~isAuthenticated
    /\ authToken' = "jwt"
    /\ storedUserData' = TRUE
    /\ userData' = u
    /\ isAuthenticated' = TRUE
    /\ toast' = "welcome"
    /\ UNCHANGED << viewVars, courseVars, payVars, currentView,
                    selectedCourseId, showLogoutModal, isLoggingOut,
                    logoutCalls >>

\* handleDemoLogin
HandleDemoLogin ==
    /\ ~isAuthenticated
    /\ userData' = DemoUser
    /\ isAuthenticated' = TRUE
    /\ storedUserData' = TRUE
    /\ authToken' = DemoToken
    /\ toast' = "welcome-demo"
    /\ UNCHANGED << viewVars, courseVars, payVars, currentView,
                    selectedCourseId, showLogoutModal, isLoggingOut,
                    logoutCalls >>

\* the sidebar's onViewChange, and the course lists' navigation
SetCurrentView(v) ==
    /\ isAuthenticated /\ ~showLogoutModal
    /\ v # currentView
    /\ currentView' = v
    /\ Render(v)
    /\ UNCHANGED << userData, authToken, viewVars, payVars,
                    selectedCourseId, isAuthenticated, storedUserData,
                    showLogoutModal, isLoggingOut, logoutCalls, toast >>

\* handleCourseClick
HandleCourseClick ==
    /\ isAuthenticated /\ ~showLogoutModal
    /\ currentView \in {"dashboard", "courses", "enrolled-courses"}
    /\ selectedCourseId' = "c1"
    /\ currentView' = "course-detail"
    /\ Render("course-detail")
    /\ UNCHANGED << userData, authToken, viewVars, payVars,
                    isAuthenticated, storedUserData,
                    showLogoutModal, isLoggingOut, logoutCalls, toast >>

\* CourseDetail's onBack
HandleBack ==
    /\ isAuthenticated /\ ~showLogoutModal
    /\ currentView = "course-detail" /\ selectedCourseId # NoCourse
    /\ currentView' = "courses"
    /\ selectedCourseId' = NoCourse
    /\ Render("courses")
    /\ UNCHANGED << userData, authToken, viewVars, payVars,
                    isAuthenticated, storedUserData,
                    showLogoutModal, isLoggingOut, logoutCalls, toast >>

\* handleLogoutClick
HandleLogoutClick ==
    /\ isAuthenticated /\ ~showLogoutModal
    /\ showLogoutModal' = TRUE
    /\ UNCHANGED << userData, authToken, viewVars, courseVars, payVars,
                    currentView, selectedCourseId, isAuthenticated,
                    storedUserData, isLoggingOut, logoutCalls, toast >>

\* handleLogoutCancel
HandleLogoutCancel ==
    /\ isAuthenticated /\ showLogoutModal
    /\ showLogoutModal' = FALSE
    /\ UNCHANGED << userData, authToken, viewVars, courseVars, payVars,
                    currentView, selectedCourseId, isAuthenticated,
                    storedUserData, isLoggingOut, logoutCalls, toast >>

\* handleLogoutConfirm up to `await api.logout()`
HandleLogoutConfirm ==
    /\ isAuthenticated /\ showLogoutModal
    /\ logoutCalls < MaxProcs
    /\ isLoggingOut' = TRUE
    /\ logoutCalls' = logoutCalls + 1
    /\ UNCHANGED << userData, authToken, viewVars, courseVars, payVars,
                    currentView, selectedCourseId, isAuthenticated,
                    storedUserData, showLogoutModal, toast >>

\* LogoutDone as it would be if the session were cleared in the branch of
\* result.success instead of in `finally`
LogoutDone_ClearsOnSuccess(outcome) ==
    /\ logoutCalls > 0
    /\ logoutCalls' = logoutCalls - 1
    /\ IF StudentLogout(authToken, outcome).success
       THEN /\ toast' = "logout-success"
            /\ authToken' = NoToken
            /\ storedUserData' = FALSE
            /\ isAuthenticated' = FALSE
            /\ userData' = Null
            /\ currentView' = "dashboard"
            /\ selectedCourseId' = NoCourse
            /\ showLogoutModal' = FALSE
            /\ isLoggingOut' = FALSE
            /\ Render("dashboard")
       ELSE /\ toast' = "logout-info"
            /\ UNCHANGED << authToken, storedUserData, isAuthenticated,
                            userData, currentView, selectedCourseId,
                            showLogoutModal, isLoggingOut, courseVars >>
    /\ UNCHANGED << viewVars, payVars >>

\* handleLogoutConfirm from api.logout's return to the end of `finally`
LogoutDone(outcome) ==
    /\ logoutCalls > 0
    /\ logoutCalls' = logoutCalls - 1
    /\ toast' = IF StudentLogout(authToken, outcome).success
                THEN "logout-success"
                ELSE "logout-info"
    /\ authToken' = NoToken
    /\ storedUserData' = FALSE
    /\ isAuthenticated' = FALSE
    /\ userData' = Null
    /\ currentView' = "dashboard"
    /\ selectedCourseId' = NoCourse
    /\ showLogoutModal' = FALSE
    /\ isLoggingOut' = FALSE
    /\ Render("dashboard")
    /\ UNCHANGED << viewVars, payVars >>

NextApp ==
    \/ \E u \in UserDatas : HandleLogin(u)
    \/ HandleDemoLogin
    \/ \E v \in PlainViews : SetCurrentView(v)
    \/ HandleCourseClick
    \/ HandleBack
    \/ HandleLogoutClick
    \/ HandleLogoutCancel
    \/ HandleLogoutConfirm
    \/ \E outcome \in RestOutcomes : LogoutDone(outcome)

SpecApp == InitApp /\ [][NextApp]_vars

\* C28: however api.logout ends, the end of handleLogoutConfirm leaves no
\* token and no user in storage, nobody authenticated, no user data, the
\* dashboard as the view, the logout modal closed and isLoggingOut false.
C28_LogoutAlwaysEndsSession ==
    [][\A outcome \in RestOutcomes :
          LogoutDone(outcome)
          => /\ authToken' = NoToken /\ ~storedUserData'
             /\ ~isAuthenticated' /\ userData' = Null
             /\ currentView' = "dashboard"
             /\ ~showLogoutModal' /\ ~isLoggingOut']_vars

\* a logout whose API call ended with an error response has finished
C28_Witness ==
    /\ toast = "logout-info" /\ logoutCalls = 0
    /\ ~isAuthenticated /\ authToken = NoToken

(* -------------------------- SubscriptionPage -------------------------- *)

\* the plans on offer
Plans == {"monthly", "yearly"}

\* one operation of subscriptionApi: in demo mode a failure built locally,
\* otherwise the outcome of the request turned into an ApiResponse
SubscriptionApi(token, outcome) ==
    IF IsDemoMode(token)
    THEN [threw |-> FALSE, success |-> FALSE, message |-> "demo mode"]
    ELSE ApiRequest(outcome)

\* a SubscriptionPage right after its first render: fetchData in flight,
\* the Razorpay script requested
InitPay ==
    /\ userData \in UserDatas
    /\ authToken \in Tokens
    /\ mounted = FALSE
    /\ ViewIdle
    /\ AppShows("subscription")
    /\ CourseState(0)
    /\ PayState(1)

\* the script of loadRazorpayScript has loaded
RazorpayScriptLoaded ==
    /\ ~razorpayLoaded
    /\ razorpayLoaded' = TRUE
    /\ UNCHANGED << userData, authToken, viewVars, appVars, courseVars,
                    isProcessingPayment, selectedPlan, planCoupon, orderCalls,
                    checkouts, verifyCalls, dataCalls, payOutcome >>

\* fetchData returns
DataDone ==
    /\ dataCalls > 0
    /\ dataCalls' = dataCalls - 1
    /\ UNCHANGED << userData, authToken, viewVars, appVars, courseVars,
                    isProcessingPayment, selectedPlan, planCoupon,
                    razorpayLoaded, orderCalls, checkouts, verifyCalls,
                    payOutcome >>

\* the coupon input's onChange
SetPlanCoupon(c) ==
    /\ c # planCoupon
    /\ planCoupon' = c
    /\ UNCHANGED << userData, authToken, viewVars, appVars, courseVars,
                    isProcessingPayment, selectedPlan, razorpayLoaded,
                    orderCalls, checkouts, verifyCalls, dataCalls, payOutcome >>

\* handlePurchasePlan(plan) up to `await subscriptionApi.createOrder`, from
\* a button with disabled={isProcessingPayment}
HandlePurchasePlan(plan) ==
    /\ ~isProcessingPayment
    /\ selectedPlan' = plan
    /\ isProcessingPayment' = TRUE
    /\ orderCalls' = orderCalls + 1
    /\ UNCHANGED << userData, authToken, viewVars, appVars, courseVars,
                    planCoupon, razorpayLoaded, checkouts, verifyCalls,
                    dataCalls, payOutcome >>

\* handlePurchasePlan from createOrder's return to its end
OrderDone(outcome) ==
    /\ orderCalls > 0
    /\ orderCalls' = orderCalls - 1
    /\ IF SubscriptionApi(authToken, outcome).success
       THEN IF razorpayLoaded
            THEN /\ checkouts' = checkouts + 1
                 /\ UNCHANGED << isProcessingPayment, payOutcome >>
            ELSE /\ isProcessingPayment' = FALSE
                 /\ payOutcome' = "no-sdk"
                 /\ UNCHANGED checkouts
       ELSE /\ isProcessingPayment' = FALSE
            /\ payOutcome' = "order-failed"
            /\ UNCHANGED checkouts
    /\ UNCHANGED << userData, authToken, viewVars, appVars, courseVars,
                    selectedPlan, planCoupon, razorpayLoaded, verifyCalls,
                    dataCalls >>

\* modal.ondismiss of the checkout
CheckoutDismissed ==
    /\ checkouts > 0
    /\ checkouts' = checkouts - 1
    /\ isProcessingPayment' = FALSE
    /\ selectedPlan' = NoPlan
    /\ payOutcome' = "dismissed"
    /\ UNCHANGED << userData, authToken, viewVars, appVars, courseVars,
                    planCoupon, razorpayLoaded, orderCalls, verifyCalls,
                    dataCalls >>

\* the checkout's handler: handlePaymentVerification up to
\* `await subscriptionApi.verifyPayment`
CheckoutPaid ==
    /\ checkouts > 0
    /\ checkouts' = checkouts - 1
    /\ verifyCalls' = verifyCalls + 1
    /\ UNCHANGED << userData, authToken, viewVars, appVars, courseVars,
                    isProcessingPayment, selectedPlan, planCoupon,
                    razorpayLoaded, orderCalls, dataCalls, payOutcome >>

\* VerifyDone as it would be if a failed verification left the flag alone
VerifyDone_KeepsFlagOnFailure(outcome) ==
    /\ verifyCalls > 0
    /\ dataCalls < MaxProcs
    /\ verifyCalls' = verifyCalls - 1
    /\ IF SubscriptionApi(authToken, outcome).success
       THEN /\ isProcessingPayment' = FALSE
            /\ selectedPlan' = NoPlan
            /\ planCoupon' = ""
            /\ dataCalls' = dataCalls + 1
            /\ payOutcome' = "verified"
       ELSE /\ payOutcome' = "verify-failed"
            /\ UNCHANGED << isProcessingPayment, selectedPlan, planCoupon,
                            dataCalls >>
    /\ UNCHANGED << userData, authToken, viewVars, appVars, courseVars,
                    razorpayLoaded, orderCalls, checkouts >>

\* handlePaymentVerification from verifyPayment's return to
\* `await fetchData()` or to its end
VerifyDone(outcome) ==
    /\ verifyCalls > 0
    /\ dataCalls < MaxProcs
    /\ verifyCalls' = verifyCalls - 1
    /\ IF SubscriptionApi(authToken, outcome).success
       THEN /\ isProcessingPayment' = FALSE
            /\ selectedPlan' = NoPlan
            /\ planCoupon' = ""
            /\ dataCalls' = dataCalls + 1
            /\ payOutcome' = "verified"
       ELSE /\ isProcessingPayment' = FALSE
            /\ payOutcome' = "verify-failed"
            /\ UNCHANGED << selectedPlan, planCoupon, dataCalls >>
    /\ UNCHANGED << userData, authToken, viewVars, appVars, courseVars,
                    razorpayLoaded, orderCalls, checkouts >>

NextPay ==
    \/ RazorpayScriptLoaded
    \/ DataDone
    \/ \E c \in CouponTexts : SetPlanCoupon(c)
    \/ \E plan \in Plans : HandlePurchasePlan(plan)
    \/ \E outcome \in RestOutcomes : OrderDone(outcome)
    \/ CheckoutDismissed
    \/ CheckoutPaid
    \/ \E outcome \in RestOutcomes : VerifyDone(outcome)

SpecPay == InitPay /\ [][NextPay]_vars

\* every request ends: fetchWithTimeout aborts it when its timeout expires
SpecPayFair ==
    /\ SpecPay
    /\ WF_vars(\E outcome \in RestOutcomes : OrderDone(outcome))
    /\ WF_vars(\E outcome \in RestOutcomes : VerifyDone(outcome))
    /\ WF_vars(DataDone)

\* C30: every end of a purchase clears isProcessingPayment: a failed order,
\* a missing SDK and a dismissed checkout at once, a paid checkout once its
\* verification returns; and fetchData is started only by a verification
\* that succeeded.
C30_PaymentFlagClears ==
    /\ [][ /\ payOutcome' # payOutcome => ~isProcessingPayment'
           /\ \A outcome \in RestOutcomes :
                 ( OrderDone(outcome) /\ checkouts' = checkouts )
                 => ~isProcessingPayment'
           /\ CheckoutDismissed => ~isProcessingPayment'
           /\ \A outcome \in RestOutcomes :
                 VerifyDone(outcome) => ~isProcessingPayment'
           /\ dataCalls' > dataCalls
              => /\ verifyCalls' < verifyCalls
                 /\ payOutcome' = "verified" ]_vars
    /\ ( verifyCalls > 0 ~> ~isProcessingPayment )
    /\ ( orderCalls > 0 ~> ( ~isProcessingPayment \/ checkouts > 0 ) )

\* a purchase whose verification failed has ended
C30_Witness ==
    /\ payOutcome = "verify-failed" /\ ~isProcessingPayment
    /\ verifyCalls = 0 /\ orderCalls = 0 /\ checkouts = 0

====
